---- MODULE Spec2Model ----
(***************************************************************************)
(* docker-list-tags: a command line client of the Docker Registry HTTP API *)
(* V2 (src/docker-list-tags.py).  One behaviour is one run of the script   *)
(* against a registry whose answers are chosen nondeterministically.       *)
(* Python strings are sequences of one-character strings; None is "None".  *)
(***************************************************************************)
EXTENDS Integers, Sequences, FiniteSets

VARIABLES
    args,     \* argparse result: [name, all, token]
    pc,       \* position of the driver: parse, resolve, list_tags, loop, print, done
    name,     \* the repository name after parsing
    tag,      \* the disambiguator (tag or digest), None under --all
    token,    \* Registry.token
    step,     \* position inside the running api_call: send, auth, retry
    headers,  \* the headers dict of the running api_call
    chal,     \* realm, service and scope taken from the challenge, a local of api_call
    reqs,     \* the HTTP requests the running api_call has sent, with their answers
    digest,   \* the digest resolved for the requested reference
    tags,     \* the list returned by list_tags
    i,        \* index of the tag list_images is at
    images,   \* the dict of list_images: a sequence of [digest, tags], in insertion order
    out,      \* the lines printed
    exit,     \* the exit status, -1 while running
    err,      \* the exception that ended the run, NoErr if none
    first,    \* the first request the run sent
    lookups,  \* the manifest requests list_images has sent, with their answers
    nTok,     \* the number of get_token calls of the run
    n401      \* the number of 401 answers the run received

vars == <<args, pc, name, tag, token, step, headers, chal, reqs, digest, tags, i,
          images, out, exit, err, first, lookups, nTok, n401>>

None == "None"

\* the disambiguator under --all (line 131): falsy, like the empty string
NoTag == <<>>

\* ------------------------------------------------------------------ bounds
\* longest reference string whose parsing is explored
MaxLen == 5
\* longest tag list the registry returns
MaxTags == 2

\* ------------------------------------------------------------------ strings
Alphabet == {"a", "@", ":", "/"}

StringsUpTo(n) == UNION {[1..k -> Alphabet] : k \in 0..n}

Latest == <<"l", "a", "t", "e", "s", "t">>

Library == <<"l", "i", "b", "r", "a", "r", "y", "/">>

\* the index of the first occurrence of character c in s, 0 if there is none
Find(s, c) ==
    IF \E k \in 1..Len(s) : s[k] = c
    THEN CHOOSE k \in 1..Len(s) : s[k] = c /\ \A j \in 1..(k - 1) : s[j] # c
    ELSE 0

\* str.partition(sep): <<before, after>> of the first sep; <<s, "">> without one
Partition(s, sep) ==
    LET k == Find(s, sep) IN
    IF k = 0 THEN <<s, <<>>>> ELSE <<SubSeq(s, 1, k - 1), SubSeq(s, k + 1, Len(s))>>

\* "sep".join(list)
RECURSIVE Join(_, _)
Join(list, sep) ==
    IF list = <<>> THEN <<>>
    ELSE IF Len(list) = 1 THEN list[1]
    ELSE list[1] \o sep \o Join(Tail(list), sep)

\* ------------------------------------------------------------------ argument parsing
\* lines 125-131: the name and the disambiguator of NAME[:TAG|@DIGEST]
ParseRefColonFirst(ref, all) ==
    LET c  == Partition(ref, ":")
        a  == Partition(ref, "@")
        n1 == IF c[2] = <<>> THEN a[1] ELSE c[1]
        t1 == IF c[2] = <<>> THEN a[2] ELSE c[2]
        t2 == IF t1 = <<>> THEN Latest ELSE t1
    IN  [name |-> n1, tag |-> IF all THEN NoTag ELSE t2]

ParseRef(ref, all) ==
    LET a  == Partition(ref, "@")
        c  == Partition(ref, ":")
        n1 == IF a[2] = <<>> THEN c[1] ELSE a[1]
        t1 == IF a[2] = <<>> THEN c[2] ELSE a[2]
        t2 == IF t1 = <<>> THEN Latest ELSE t1
    IN  [name |-> n1, tag |-> IF all THEN NoTag ELSE t2]

\* lines 132-133
RepoNameNoPrefix(n) == n

RepoName(n) == IF Find(n, "/") = 0 THEN Library \o n ELSE n

\* ------------------------------------------------------------------ the registry
\* the references the run is started with
RunNames == {<<"a">>, <<"a", "/", "a", ":", "a">>, <<"a", "/", "a", "@", "d">>}

TagNames == {<<"a">>, <<"b">>}

Digests == {<<"d">>, <<"e">>}

TagLists == UNION {[1..k -> TagNames] : k \in 0..MaxTags}

\* the token given with --token, and the tokens the auth service issues
CliToken == "T0"

IssuedTokens == {"T1", "T2"}

\* a WWW-Authenticate header: absent, or a scheme followed by key=value pairs
NoHeader == [present |-> FALSE, bearer |-> FALSE, pairs |-> <<>>]

Header(bearer, pairs) == [present |-> TRUE, bearer |-> bearer, pairs |-> pairs]

Realm1 == <<"realm", "https://auth.example/token">>

Realm2 == <<"realm", "https://other.example/token">>

Service1 == <<"service", "registry.example">>

Scope1 == <<"scope", "repo:foo/bar:pull">>

Headers ==
    { NoHeader,
      Header(FALSE, <<Realm1>>),
      Header(TRUE, <<>>),
      Header(TRUE, <<Service1, Scope1>>),
      Header(TRUE, <<Realm1, Service1, Realm2>>),
      Header(TRUE, <<Realm1, Service1, Scope1>>) }

\* the errors array of a failure's JSON body (empty: no body)
ErrorBodies == {<<>>, <<"NAME_UNKNOWN">>}

NoPath == [ep |-> None, name |-> <<>>, ref |-> <<>>]

Response(status, dg, tl, auth, errors) ==
    [status |-> status, digest |-> dg, tags |-> tl, auth |-> auth, errors |-> errors]

\* the answers the registry can give to a request of `path`
ApiResponses(path) ==
    (IF path.ep = "manifests"
     THEN {Response(200, d, <<>>, NoHeader, <<>>) : d \in Digests}
     ELSE {Response(200, <<>>, tl, NoHeader, <<>>) : tl \in TagLists})
    \cup {Response(404, <<>>, <<>>, NoHeader, e) : e \in ErrorBodies}
    \cup {Response(401, <<>>, <<>>, h, <<>>) : h \in Headers}

\* the answers of the auth service
TokenResponses ==
    {[status |-> 200, token |-> t] : t \in IssuedTokens}
    \cup {[status |-> 204, token |-> None], [status |-> 403, token |-> None]}

\* ------------------------------------------------------------------ Registry
\* lines 67-68: the dict of the key=value pairs, a later pair replacing an earlier
ChallengeDict(h) ==
    LET keys == {h.pairs[j][1] : j \in 1..Len(h.pairs)} IN
    [k \in keys |->
        LET j == CHOOSE j \in 1..Len(h.pairs) :
                    /\ h.pairs[j][1] = k
                    /\ \A l \in (j + 1)..Len(h.pairs) : h.pairs[l][1] # k
        IN  h.pairs[j][2]]

NoChal == [raise |-> None, realm |-> None, service |-> None, scope |-> None]

\* lines 61-69: what api_call makes of the WWW-Authenticate header of a 401
Challenge(h) ==
    IF ~h.present THEN [NoChal EXCEPT !.raise = "TypeError"]
    ELSE IF ~h.bearer THEN [NoChal EXCEPT !.raise = "HTTPError"]
    ELSE LET d == ChallengeDict(h) IN
         IF "realm" \notin DOMAIN d THEN [NoChal EXCEPT !.raise = "KeyError"]
         ELSE IF "service" \notin DOMAIN d THEN [NoChal EXCEPT !.raise = "KeyError"]
         ELSE IF "scope" \notin DOMAIN d THEN [NoChal EXCEPT !.raise = "KeyError"]
         ELSE [raise |-> None, realm |-> d["realm"], service |-> d["service"],
               scope |-> d["scope"]]

\* lines 96-99: images.setdefault(digest, []).append(tag)
SetDefaultOverwrite(imgs, dg, t) ==
    IF \E k \in 1..Len(imgs) : imgs[k].digest = dg
    THEN [k \in 1..Len(imgs) |->
            IF imgs[k].digest = dg THEN [imgs[k] EXCEPT !.tags = <<t>>] ELSE imgs[k]]
    ELSE Append(imgs, [digest |-> dg, tags |-> <<t>>])

SetDefaultAppend(imgs, dg, t) ==
    IF \E k \in 1..Len(imgs) : imgs[k].digest = dg
    THEN [k \in 1..Len(imgs) |->
            IF imgs[k].digest = dg THEN [imgs[k] EXCEPT !.tags = Append(@, t)] ELSE imgs[k]]
    ELSE Append(imgs, [digest |-> dg, tags |-> <<t>>])

\* images[digest], for a digest that is a key
Lookup(imgs, dg) ==
    LET k == CHOOSE k \in 1..Len(imgs) : imgs[k].digest = dg IN imgs[k].tags

HasKey(imgs, dg) == \E k \in 1..Len(imgs) : imgs[k].digest = dg

\* lines 81 and 86: the path of the request the driver is at
TagsPath(n) == [ep |-> "tags/list", name |-> n, ref |-> <<>>]

ManifestPath(n, ref) == [ep |-> "manifests", name |-> n, ref |-> ref]

CurPath ==
    CASE pc = "resolve" -> ManifestPath(name, tag)
      [] pc = "list_tags" -> TagsPath(name)
      [] pc = "loop" -> ManifestPath(name, tags[i])
      [] OTHER -> NoPath

\* lines 87-90
CurMethod == IF pc = "list_tags" THEN "GET" ELSE "HEAD"

CurAccept == IF pc = "list_tags" THEN None ELSE "manifest.list.v2+json"

\* a request as sent: `held` is Registry.token at the time of sending, `wwwauth`
\* the WWW-Authenticate header api_call has read from the answer (line 61)
ApiReq(hd, resp, read) ==
    [kind |-> "api", path |-> CurPath, method |-> CurMethod, accept |-> hd.Accept,
     auth |-> hd.Authorization, held |-> token, realm |-> None, service |-> None,
     scope |-> None, status |-> resp.status, wwwauth |-> read, issued |-> None]

TokenReq(c, tr) ==
    [kind |-> "token", path |-> NoPath, method |-> "GET", accept |-> None,
     auth |-> None, held |-> token, realm |-> c.realm, service |-> c.service,
     scope |-> c.scope, status |-> tr.status, wwwauth |-> NoHeader,
     issued |-> tr.token]

NoReq == [kind |-> None]

NoErr == [type |-> None, code |-> 0, origin |-> None, errors |-> <<>>]

HTTPError(code, origin, errors) ==
    [type |-> "HTTPError", code |-> code, origin |-> origin, errors |-> errors]

Uncaught(type) == [type |-> type, code |-> 0, origin |-> None, errors |-> <<>>]

ResultLine(text) == [type |-> "result", text |-> text, code |-> 0]

\* lines 147-153: the lines the handler prints for an HTTPError
ErrorLines(e) ==
    <<[type |-> "error", text |-> <<>>, code |-> e.code]>>
    \o [k \in 1..(2 * Len(e.errors)) |->
          [type |-> IF k % 2 = 1 THEN "errcode" ELSE "details",
           text |-> <<>>, code |-> e.code]]

\* ------------------------------------------------------------------ the run
Start(names) ==
    /\ args \in [name : names, all : BOOLEAN, token : {None, CliToken}]
    /\ pc = "parse"
    /\ name = <<>>
    /\ tag = NoTag
    /\ token = None
    /\ step = "send"
    /\ headers = [Accept |-> None, Authorization |-> None]
    /\ chal = NoChal
    /\ reqs = <<>>
    /\ digest = <<>>
    /\ tags = <<>>
    /\ i = 1
    /\ images = <<>>
    /\ out = <<>>
    /\ exit = -1
    /\ err = NoErr
    /\ first = NoReq
    /\ lookups = <<>>
    /\ nTok = 0
    /\ n401 = 0

Init == Start(RunNames)

InitParse == Start(StringsUpTo(MaxLen))

\* lines 121-134 with the token argument of line 123 left out
ParseDropToken ==
    /\ pc = "parse"
    /\ LET p == ParseRef(args.name, args.all) IN
         /\ name' = RepoName(p.name)
         /\ tag' = p.tag
         /\ pc' = IF p.tag # NoTag THEN "resolve" ELSE "list_tags"
    /\ token' = None
    /\ UNCHANGED <<args, step, headers, chal, reqs, digest, tags, i, images, out,
                   exit, err, first, lookups, nTok, n401>>

\* lines 121-134 with line 137 skipped for a digest reference, the digest used as it is
ParseDigestDirect ==
    /\ pc = "parse"
    /\ LET p == ParseRef(args.name, args.all) IN
         /\ name' = RepoName(p.name)
         /\ tag' = p.tag
         /\ pc' = IF p.tag # NoTag /\ Find(args.name, "@") = 0 THEN "resolve" ELSE "list_tags"
         /\ digest' = IF p.tag # NoTag /\ Find(args.name, "@") # 0 THEN p.tag ELSE digest
    /\ token' = args.token
    /\ UNCHANGED <<args, step, headers, chal, reqs, tags, i, images, out,
                   exit, err, first, lookups, nTok, n401>>

\* lines 121-134: parse the arguments and construct the Registry
Parse ==
    /\ pc = "parse"
    /\ LET p == ParseRef(args.name, args.all) IN
         /\ name' = RepoName(p.name)
         /\ tag' = p.tag
         /\ pc' = IF p.tag # NoTag THEN "resolve" ELSE "list_tags"
    /\ token' = args.token
    /\ UNCHANGED <<args, step, headers, chal, reqs, digest, tags, i, images, out,
                   exit, err, first, lookups, nTok, n401>>

\* api_call returns `resp` to the driver, which goes on (lines 137, 82, 92, 95-101)
Return(resp) ==
    /\ step' = "send"
    /\ CASE pc = "resolve" ->
              /\ digest' = resp.digest
              /\ pc' = "list_tags"
              /\ UNCHANGED <<tags, i, images>>
         [] pc = "list_tags" ->
              /\ tags' = resp.tags
              /\ images' = <<>>
              /\ i' = 1
              /\ pc' = IF resp.tags = <<>> THEN "print" ELSE "loop"
              /\ UNCHANGED digest
         [] pc = "loop" ->
              /\ images' = SetDefaultAppend(images, resp.digest, tags[i])
              /\ i' = i + 1
              /\ pc' = IF i = Len(tags) THEN "print" ELSE "loop"
              /\ UNCHANGED <<digest, tags>>
    /\ UNCHANGED <<out, exit, err>>

\* an exception leaves api_call: an HTTPError is handled by lines 146-155, any
\* other exception is uncaught and ends the process with status 1
RaiseExitZero(e) ==
    /\ pc' = "done"
    /\ err' = e
    /\ exit' = 0
    /\ out' = IF e.type = "HTTPError" THEN out \o ErrorLines(e) ELSE out
    /\ UNCHANGED <<step, digest, tags, i, images>>

Raise(e) ==
    /\ pc' = "done"
    /\ err' = e
    /\ exit' = 1
    /\ out' = IF e.type = "HTTPError" THEN out \o ErrorLines(e) ELSE out
    /\ UNCHANGED <<step, digest, tags, i, images>>

\* api_call goes on to its next request
Continue(next) ==
    /\ step' = next
    /\ UNCHANGED <<pc, digest, tags, i, images, out, exit, err>>

Count401(resp) == n401' = IF resp.status = 401 THEN n401 + 1 ELSE n401

\* the requests of the loop of list_images (line 98) are recorded
Record(resp) ==
    lookups' = IF pc = "loop"
               THEN Append(lookups, [ref |-> CurPath.ref, status |-> resp.status,
                                     digest |-> resp.digest])
               ELSE lookups

\* lines 48-64 (and 78): the first request of an api_call
Send ==
    /\ pc \in {"resolve", "list_tags", "loop"}
    /\ step = "send"
    /\ LET hd == [Accept |-> CurAccept,
                  Authorization |-> IF token # None THEN token ELSE None]
       IN \E resp \in ApiResponses(CurPath) :
            LET req == ApiReq(hd, resp, IF resp.status = 401 THEN resp.auth ELSE NoHeader)
                c   == Challenge(resp.auth)
            IN  /\ headers' = hd
                /\ reqs' = <<req>>
                /\ first' = IF first.kind = None THEN req ELSE first
                /\ Count401(resp)
                /\ Record(resp)
                /\ IF resp.status = 200
                     THEN Return(resp) /\ chal' = NoChal
                   ELSE IF resp.status # 401
                     THEN Raise(HTTPError(resp.status, "request", resp.errors))
                          /\ chal' = NoChal
                   ELSE IF c.raise = "HTTPError"
                     THEN Raise(HTTPError(resp.status, "request", resp.errors))
                          /\ chal' = NoChal
                   ELSE IF c.raise # None
                     THEN Raise(Uncaught(c.raise)) /\ chal' = NoChal
                   ELSE Continue("auth") /\ chal' = c
    /\ UNCHANGED <<args, name, tag, token, nTok>>

\* line 69, lines 33-45: get_token
GetTokenStoreAlways ==
    /\ pc \in {"resolve", "list_tags", "loop"}
    /\ step = "auth"
    /\ \E tr \in TokenResponses :
         /\ reqs' = Append(reqs, TokenReq(chal, tr))
         /\ token' = tr.token
         /\ IF tr.status = 200
              THEN Continue("retry")
              ELSE Raise(HTTPError(tr.status, "token", <<>>))
    /\ nTok' = nTok + 1
    /\ UNCHANGED <<args, name, tag, headers, chal, first, lookups, n401>>

GetToken ==
    /\ pc \in {"resolve", "list_tags", "loop"}
    /\ step = "auth"
    /\ \E tr \in TokenResponses :
         /\ reqs' = Append(reqs, TokenReq(chal, tr))
         /\ IF tr.status = 200
              THEN token' = tr.token /\ Continue("retry")
              ELSE UNCHANGED token /\ Raise(HTTPError(tr.status, "token", <<>>))
    /\ nTok' = nTok + 1
    /\ UNCHANGED <<args, name, tag, headers, chal, first, lookups, n401>>

\* lines 71-78: the request is sent again, once, with the new token
RetryAgainOn401 ==
    /\ pc \in {"resolve", "list_tags", "loop"}
    /\ step = "retry"
    /\ LET hd == [headers EXCEPT !.Authorization = token]
       IN \E resp \in ApiResponses(CurPath) :
            /\ headers' = hd
            /\ reqs' = Append(reqs, ApiReq(hd, resp, NoHeader))
            /\ Count401(resp)
            /\ Record(resp)
            /\ chal' = NoChal
            /\ IF resp.status = 200
                 THEN Return(resp)
               ELSE IF resp.status = 401 /\ Len(reqs) < 4
                 THEN Continue("auth")
               ELSE Raise(HTTPError(resp.status, "retry", resp.errors))
    /\ UNCHANGED <<args, name, tag, token, first, nTok>>

Retry ==
    /\ pc \in {"resolve", "list_tags", "loop"}
    /\ step = "retry"
    /\ LET hd == [headers EXCEPT !.Authorization = token]
       IN \E resp \in ApiResponses(CurPath) :
            /\ headers' = hd
            /\ reqs' = Append(reqs, ApiReq(hd, resp, NoHeader))
            /\ Count401(resp)
            /\ Record(resp)
            /\ chal' = NoChal
            /\ IF resp.status = 200
                 THEN Return(resp)
                 ELSE Raise(HTTPError(resp.status, "retry", resp.errors))
    /\ UNCHANGED <<args, name, tag, token, first, nTok>>

\* line 145, for every item of the dict
AllLines(imgs) ==
    [k \in 1..Len(imgs) |->
        ResultLine(imgs[k].digest \o <<":", " ">> \o Join(imgs[k].tags, <<" ">>))]

\* lines 141-145: print the result; the script then ends with status 0
PrintImages ==
    /\ pc = "print"
    /\ pc' = "done"
    /\ IF tag # NoTag
         THEN IF HasKey(images, digest)
                THEN /\ out' = Append(out, ResultLine(Join(Lookup(images, digest), <<" ">>)))
                     /\ exit' = 0
                     /\ UNCHANGED err
                ELSE /\ err' = Uncaught("KeyError")
                     /\ exit' = 1
                     /\ UNCHANGED out
         ELSE /\ out' = out \o AllLines(images)
              /\ exit' = 0
              /\ UNCHANGED err
    /\ UNCHANGED <<args, name, tag, token, step, headers, chal, reqs, digest, tags, i,
                   images, first, lookups, nTok, n401>>

Next == Parse \/ Send \/ GetToken \/ Retry \/ PrintImages

Spec == Init /\ [][Next]_vars

\* reference parsing alone, over every reference string up to MaxLen
SpecParse == InitParse /\ [][Parse]_vars

\* ------------------------------------------------------------------ properties
\* the running api_call has ended: it returned, or an exception left it
CallEnded == reqs # <<>> /\ (pc = "done" \/ (step = "send" /\ pc # "parse"))

\* a challenge naming the Bearer scheme and all three parameters
ValidChallenge(h) ==
    /\ h.present
    /\ h.bearer
    /\ \A key \in {"realm", "service", "scope"} :
          \E j \in 1..Len(h.pairs) : h.pairs[j][1] = key

Names(h, key) == {h.pairs[j][2] : j \in {l \in 1..Len(h.pairs) : h.pairs[l][1] = key}}

SpecHeader == Header(TRUE, <<Realm1, Service1, Scope1>>)

Answered401Valid == reqs # <<>> /\ reqs[1].status = 401 /\ ValidChallenge(reqs[1].wwwauth)

\* C1: an api_call whose first request is answered 401 with a valid Bearer challenge
\* calls get_token once, with the realm, service and scope of that header, then sends
\* the request once more with the new token, and sends nothing after that, whatever
\* the answer; a failed retry leaves api_call as an HTTPError.
C1_SingleRetry ==
    /\ Len(reqs) <= 3
    /\ \A k \in 1..Len(reqs) : (reqs[k].kind = "token") <=> (k = 2)
    /\ Len(reqs) >= 2 => Answered401Valid
    /\ Answered401Valid =>
         /\ (step = "auth" /\ pc # "done") <=> (Len(reqs) = 1)
         /\ Len(reqs) >= 2 =>
              /\ reqs[2].realm \in Names(reqs[1].wwwauth, "realm")
              /\ reqs[2].service \in Names(reqs[1].wwwauth, "service")
              /\ reqs[2].scope \in Names(reqs[1].wwwauth, "scope")
              /\ reqs[1].wwwauth = SpecHeader =>
                   /\ reqs[2].realm = "https://auth.example/token"
                   /\ reqs[2].service = "registry.example"
                   /\ reqs[2].scope = "repo:foo/bar:pull"
              /\ (step = "retry" /\ pc # "done") <=> (Len(reqs) = 2 /\ reqs[2].status = 200)
              /\ CallEnded => (Len(reqs) = 3 <=> reqs[2].status = 200)
         /\ Len(reqs) = 3 =>
              /\ reqs[3].kind = "api"
              /\ reqs[3].path = reqs[1].path
              /\ reqs[3].method = reqs[1].method
              /\ reqs[3].accept = reqs[1].accept
              /\ reqs[3].auth = reqs[2].issued
              /\ reqs[3].auth # None
              /\ CallEnded
              /\ reqs[3].status # 200 =>
                   /\ pc = "done"
                   /\ err = HTTPError(reqs[3].status, "retry", err.errors)

C1_Witness ==
    /\ Len(reqs) = 3
    /\ reqs[1].wwwauth = SpecHeader
    /\ reqs[3].status = 401
    /\ pc = "done"

\* C2: an api_call answered 401 without a usable Bearer challenge (no header, another
\* scheme, or realm, service or scope missing) ends with the original 401 error,
\* without a get_token call, without a retry and with the token as it was.
C2_Original401Propagates ==
    (CallEnded /\ reqs[1].status = 401 /\ ~ValidChallenge(reqs[1].wwwauth)) =>
        /\ Len(reqs) = 1
        /\ token = reqs[1].held
        /\ pc = "done"
        /\ err.type = "HTTPError"
        /\ err.code = 401
        /\ err.origin = "request"

\* the positions of the tag list whose lookup returned digest dg, in order
RECURSIVE TagsUnder(_, _)
TagsUnder(dg, n) ==
    IF n = 0 THEN <<>>
    ELSE IF lookups[n].digest = dg
         THEN Append(TagsUnder(dg, n - 1), tags[n])
         ELSE TagsUnder(dg, n - 1)

FirstAt(dg) == CHOOSE j \in 1..Len(lookups) :
                  lookups[j].digest = dg /\ \A l \in 1..(j - 1) : lookups[l].digest # dg

ListImagesReturned == pc = "print" \/ (pc = "done" /\ err.type \in {None, "KeyError"})

\* C3: when every request succeeds list_images sends one digest lookup per tag, in
\* the order of the tag list, and returns a dict in which every entry of the tag list
\* appears once, under the digest returned for it, the digests in the order of their
\* first occurrence and the tags of a digest in the order of the tag list.
C3_GroupedInOrder ==
    (ListImagesReturned /\ n401 = 0) =>
        /\ Len(lookups) = Len(tags)
        /\ \A j \in 1..Len(tags) : lookups[j].ref = tags[j] /\ lookups[j].status = 200
        /\ \A j \in 1..Len(tags) : \E k \in 1..Len(images) : images[k].digest = lookups[j].digest
        /\ \A k \in 1..Len(images) :
              /\ images[k].tags # <<>>
              /\ images[k].tags = TagsUnder(images[k].digest, Len(tags))
              /\ \A l \in 1..Len(images) :
                    /\ (images[l].digest = images[k].digest) => (l = k)
                    /\ (k < l) => (FirstAt(images[k].digest) < FirstAt(images[l].digest))

C3_Witness ==
    /\ pc = "print"
    /\ n401 = 0
    /\ Len(tags) = 2
    /\ Len(images) = 1
    /\ Len(images[1].tags) = 2
    /\ tags[1] # tags[2]

\* the tags of the list whose lookup returned the digest of the requested reference
Sharing == TagsUnder(digest, Len(tags))

AllSucceeded == pc = "done" /\ n401 = 0 /\ err.type # "HTTPError"

\* C4: without --all, when every request of the run succeeds, the driver prints one
\* line, the space-joined tags sharing the digest of the requested reference, and
\* ends with status 0, also when no tag of the list shares that digest.
C4_OneLineExitZero ==
    (AllSucceeded /\ tag # NoTag) =>
        /\ exit = 0
        /\ Len(out) = 1
        /\ out[1].type = "result"
        /\ out[1].text = Join(Sharing, <<" ">>)

LastReq == reqs[Len(reqs)]

NoResultLine == \A k \in 1..Len(out) : out[k].type # "result"

\* C5: a request whose failure is not recovered by the one 401 retry aborts the run:
\* no result line is printed, not even for tags already resolved, and the exit status
\* is 1; the exit status is 0 only when no request failed that way.
C5_FailureAborts ==
    /\ (reqs # <<>> /\ LastReq.status # 200) =>
          \/ (pc # "done" /\ step = "auth" /\ Len(reqs) = 1 /\ LastReq.status = 401)
          \/ (pc = "done" /\ exit = 1 /\ NoResultLine /\ err.type # None)
    /\ err.type = "HTTPError" => (pc = "done" /\ exit = 1 /\ NoResultLine)
    /\ exit = 0 => (pc = "done" /\ err = NoErr /\ (reqs # <<>> /\ LastReq.status = 200))
    /\ pc # "done" => (exit = -1 /\ out = <<>>)

C5_Witness ==
    /\ pc = "done"
    /\ err.type = "HTTPError"
    /\ images # <<>>
    /\ exit = 1

Started == pc # "parse"

\* C6 as stated: with --token, get_token is never called and the token never replaced,
\* whatever the registry answers.
C6_TokenNeverReplaced ==
    (args.token # None /\ Started) => (nTok = 0 /\ token = args.token)

\* C6, amended: with --token the client holds a token from the start and sends the
\* supplied one until a request is answered 401 with a valid Bearer challenge; only
\* then is get_token called, and only its success replaces the supplied token.
C6_TokenKeptUntilChallenge ==
    (args.token # None /\ Started) =>
        /\ token # None
        /\ reqs # <<>> => reqs[1].auth = reqs[1].held /\ reqs[1].held # None
        /\ nTok = 0 => token = args.token
        /\ nTok <= n401
        /\ n401 = 0 => \A k \in 1..Len(reqs) : reqs[k].kind = "api" /\ reqs[k].auth = args.token
        /\ \A k \in 1..Len(reqs) :
              reqs[k].kind = "token" => (reqs[1].status = 401 /\ ValidChallenge(reqs[1].wwwauth))
        /\ (reqs # <<>> /\ token # reqs[1].held) =>
              (Len(reqs) >= 2 /\ reqs[2].status = 200 /\ token = reqs[2].issued)

C6_Witness ==
    /\ args.token = CliToken
    /\ Len(reqs) = 3
    /\ reqs[1].auth = CliToken
    /\ token \in IssuedTokens
    /\ reqs[3].auth = token

\* the reference has the form NAME@DIGEST, the digest not empty
DigestRef == \E k \in 1..(Len(args.name) - 1) : args.name[k] = "@"

AfterFirst(s, c) ==
    LET k == CHOOSE k \in 1..Len(s) : s[k] = c /\ \A j \in 1..(k - 1) : s[j] # c
    IN  [j \in 1..(Len(s) - k) |-> s[k + j]]

BeforeFirst(s, c) ==
    LET k == CHOOSE k \in 1..Len(s) : s[k] = c /\ \A j \in 1..(k - 1) : s[j] # c
    IN  [j \in 1..(k - 1) |-> s[j]]

\* C7 as stated: for NAME@DIGEST without --all no digest is resolved before the
\* grouping, the first request of the run is the tags/list request.
C7_NoResolutionRequest ==
    (DigestRef /\ ~args.all /\ first.kind # None) => first.path.ep = "tags/list"

\* C7, amended: for NAME@DIGEST without --all the digest is the reference of a
\* manifest-digest resolution request, HEAD /v2/{name}/manifests/{DIGEST}, which is the
\* first request of the run; the tags/list request is sent only once it has succeeded,
\* and the grouping key is the digest that request returned.
C7_DigestResolvedFirst ==
    (DigestRef /\ ~args.all /\ Started) =>
        /\ first.kind # None =>
              /\ first.path.ep = "manifests"
              /\ first.path.ref = AfterFirst(args.name, "@")
              /\ first.method = "HEAD"
        /\ pc = "resolve" => digest = <<>>
        /\ \A k \in 1..Len(reqs) :
              (reqs[k].path.ep = "tags/list" \/ pc \in {"list_tags", "loop", "print"}) =>
                  digest \in Digests
        /\ (pc = "done" /\ exit = 0) =>
              \E k \in 1..Len(images) :
                  /\ images[k].digest = digest
                  /\ out = <<ResultLine(Join(images[k].tags, <<" ">>))>>

C7_Witness ==
    /\ DigestRef
    /\ ~args.all
    /\ pc = "done"
    /\ exit = 0
    /\ digest # AfterFirst(args.name, "@")
    /\ Len(out[1].text) = 3

HasAfter(s, c) == \E k \in 1..(Len(s) - 1) : s[k] = c /\ \A j \in 1..(k - 1) : s[j] # c

Has(s, c) == \E k \in 1..Len(s) : s[k] = c

\* C8: without --all the disambiguator is what follows the first "@" when that is not
\* empty (whatever ":" the string holds); otherwise what follows the first ":" when
\* that is not empty; and "latest" when the string holds neither "@" nor ":".
C8_Disambiguator ==
    (Started /\ ~args.all) =>
        /\ HasAfter(args.name, "@") => tag = AfterFirst(args.name, "@")
        /\ (~HasAfter(args.name, "@") /\ HasAfter(args.name, ":")) =>
              tag = AfterFirst(args.name, ":")
        /\ (~Has(args.name, "@") /\ ~Has(args.name, ":")) => tag = Latest

C8_Witness ==
    /\ Started
    /\ ~args.all
    /\ args.name = <<"a", ":", "a", "@", "a">>
    /\ tag = <<"a">>

\* the repository name as parsed, before line 132
ParsedName ==
    IF HasAfter(args.name, "@") THEN BeforeFirst(args.name, "@")
    ELSE IF Has(args.name, ":") THEN BeforeFirst(args.name, ":")
    ELSE args.name

\* C9: a parsed name without "/" is used as "library/" followed by the name, a name
\* with a "/" unchanged, so the name in the path of every request holds a "/".
C9_LibraryPrefix ==
    Started =>
        /\ Has(ParsedName, "/") => name = ParsedName
        /\ ~Has(ParsedName, "/") => name = Library \o ParsedName
        /\ \A k \in 1..Len(reqs) :
              reqs[k].kind = "api" => (reqs[k].path.name = name /\ Has(reqs[k].path.name, "/"))
        /\ first.kind # None => (first.path.name = name /\ Has(first.path.name, "/"))

C9_Witness ==
    /\ args.name = <<"a">>
    /\ Len(reqs) = 3
    /\ reqs[3].path.name = <<"l", "i", "b", "r", "a", "r", "y", "/", "a">>
    /\ pc = "loop"

\* what holds of the token and the requests in every state
C10_State ==
    /\ nTok <= n401
    /\ \A k \in 1..Len(reqs) :
          /\ reqs[k].kind = "api" =>
                /\ reqs[k].held # None => reqs[k].auth = reqs[k].held
                /\ reqs[k].held = None => reqs[k].auth = None
          /\ (reqs[k].kind = "token" /\ reqs[k].status # 200) =>
                /\ k = Len(reqs)
                /\ token = reqs[k].held
                /\ token = reqs[1].held
                /\ pc = "done"
    /\ (Started /\ step = "retry") => token # None

\* what holds of every step of a constructed client
C10_Step ==
    Started =>
        /\ token # None => token' # None
        /\ token' # token =>
              /\ step = "auth"
              /\ nTok' = nTok + 1
              /\ reqs'[Len(reqs')].kind = "token"
              /\ reqs'[Len(reqs')].status = 200
              /\ token' = reqs'[Len(reqs')].issued

\* C10: over the api_calls of one client the token changes only by a get_token call
\* that succeeded and is never absent once held; a request sent while a token is held
\* carries the token stored last; get_token is called at most once per 401 received;
\* a failed get_token leaves the token as it was and no retry follows.
C10_TokenDiscipline == [][C10_Step]_vars /\ []C10_State

C10_Witness ==
    /\ pc = "loop"
    /\ Len(reqs) = 3
    /\ reqs[1].held \in IssuedTokens
    /\ reqs[3].held \in IssuedTokens
    /\ reqs[3].held # reqs[1].held
    /\ reqs[3].auth = token

====
